---- MODULE Spec2Model ----
(***************************************************************************)
(* Model of raid_selector.py: Combo.total_capacity, Combo.total_price and  *)
(* rank_combinations.  One call of rank_combinations is a run of the state *)
(* machine: the generation loop (one step per constructed Combo), the      *)
(* sorting of the buckets, the ranking loop (one step per bucket) and the  *)
(* return.  Capacities and prices are integers (exact arithmetic).         *)
(***************************************************************************)
EXTENDS Integers, Sequences, FiniteSets

\* ---- bounds of the explored inputs ----
MaxCatalog == 2
MaxUnitCapacity == 3
MaxUnitPrice == 3
MaxDriveCount == 4

\* RAID-level identifiers supplied by callers: the six levels of the
\* documentation, the identifier the code actually lists in place of RAID4,
\* and one identifier nobody recognises.
RaidLevels == {"RAID0", "RAID1", "RAID3", "RAID4", "RADI4", "RAID5", "RAID6", "RAID9"}

\* The levels the documentation recognises.
DocumentedLevels == {"RAID0", "RAID1", "RAID3", "RAID4", "RAID5", "RAID6"}

VARIABLES
    prices,              \* the catalog, in iteration order: <<[unit_capacity, unit_price], ...>>
    min_drive_count,     \* parameter; reassigned inside the ranking loop
    max_drive_count,     \* parameter
    raid_level,          \* parameter
    min_drive_count_arg, \* the value of min_drive_count at the call
    drive_count,         \* outer loop variable of the generation loop
    price_idx,           \* position of the inner loop in prices
    all_combos,          \* dict total_capacity -> list of Combo
    items,               \* keys of sorted(all_combos.items(), reverse=True)
    item_idx,            \* position of the ranking loop in items
    tightest_combos,     \* local of the ranking loop
    ranked_combos,       \* the result list
    pc                   \* "generate", "rank", "done" (returned), "error" (ValueError raised)

vars == <<prices, min_drive_count, max_drive_count, raid_level, min_drive_count_arg,
          drive_count, price_idx, all_combos, items, item_idx, tightest_combos,
          ranked_combos, pc>>

\* ---- Combo ----
Combo(dc, uc, up, level) ==
    [drive_count |-> dc, unit_capacity |-> uc, unit_price |-> up, raid_level |-> level]

\* Combo.total_capacity: raised = TRUE models `raise ValueError`.
total_capacity(combo) ==
    IF combo.raid_level \in {"RAID0"}
    THEN [raised |-> FALSE, value |-> combo.unit_capacity * combo.drive_count]
    ELSE IF combo.raid_level \in {"RAID1"}
    THEN [raised |-> FALSE, value |-> combo.unit_capacity]
    ELSE IF combo.raid_level \in {"RAID3", "RADI4", "RAID5"}
    THEN [raised |-> FALSE, value |-> combo.unit_capacity * (combo.drive_count - 1)]
    ELSE IF combo.raid_level \in {"RAID6"}
    THEN [raised |-> FALSE, value |-> combo.unit_capacity * (combo.drive_count - 2)]
    ELSE [raised |-> TRUE, value |-> 0]

\* Combo.total_price
total_price(combo) == combo.unit_price * combo.drive_count

\* ---- helpers of rank_combinations ----
\* membership of i in range(start, stop), buggy variant: swapped bounds are normalised
range_contains_swapped(start, stop, i) ==
    IF start < stop THEN start <= i /\ i < stop ELSE stop - 1 <= i /\ i <= start

\* membership of i in range(start, stop)
range_contains(start, stop, i) == start <= i /\ i < stop

\* min / max of a non-empty set of integers
SetMax(S) == CHOOSE m \in S : \A x \in S : x <= m
SetMin(S) == CHOOSE m \in S : \A x \in S : m <= x

\* ascending sort (buggy variant: reverse=True forgotten)
RECURSIVE sorted_ascending(_)
sorted_ascending(keys) ==
    IF keys = {} THEN <<>>
    ELSE LET m == SetMin(keys) IN <<m>> \o sorted_ascending(keys \ {m})

\* keys of sorted(all_combos.items(), reverse=True): dict keys are unique, so
\* the tuples are ordered by their first component alone
RECURSIVE sorted_reverse(_)
sorted_reverse(keys) ==
    IF keys = {} THEN <<>>
    ELSE LET m == SetMax(keys) IN <<m>> \o sorted_reverse(keys \ {m})

\* min([f(combo) for combo in combos])
prices_of(combos) == {total_price(combos[i]) : i \in 1..Len(combos)}
drive_counts_of(combos) == {combos[i].drive_count : i \in 1..Len(combos)}

\* buggy variant: the most expensive price of the bucket
max_price_of(combos) == SetMax(prices_of(combos))

\* min_price = min([combo.total_price for combo in combos])
min_price_of(combos) == SetMin(prices_of(combos))

\* buggy variants of the dominance test
skip_never(ranked, min_price) == FALSE
skip_inverted(ranked, min_price) ==
    Len(ranked) > 0 /\ min_price < total_price(ranked[Len(ranked)])
skip_on_equal(ranked, min_price) ==
    Len(ranked) > 0 /\ min_price >= total_price(ranked[Len(ranked)])

\* len(ranked_combos) > 0 and min_price > ranked_combos[-1].total_price
skip_bucket(ranked, min_price) ==
    Len(ranked) > 0 /\ min_price > total_price(ranked[Len(ranked)])

\* cheapest_combos = [combo for combo in combos if combo.total_price == min_price]
cheapest_of(combos, min_price) ==
    SelectSeq(combos, LAMBDA combo : total_price(combo) = min_price)

\* buggy variant: the largest drive count
most_drives_of(combos) == SetMax(drive_counts_of(combos))

\* min([combo.drive_count for combo in cheapest_combos])
fewest_drives_of(combos) == SetMin(drive_counts_of(combos))

\* tightest_combos = [combo for combo in cheapest_combos if combo.drive_count == min_drive_count]
tightest_of(combos, dc) ==
    SelectSeq(combos, LAMBDA combo : combo.drive_count = dc)

\* ---- inputs ----
CatalogEntries ==
    [unit_capacity : 1..MaxUnitCapacity, unit_price : 1..MaxUnitPrice]

\* dicts have unique keys: no unit capacity occurs twice
Catalogs ==
    UNION {{s \in [1..n -> CatalogEntries] :
               \A i, j \in 1..n : i # j => s[i].unit_capacity # s[j].unit_capacity}
           : n \in 0..MaxCatalog}

Init ==
    /\ prices \in Catalogs
    /\ min_drive_count \in 1..MaxDriveCount
    /\ max_drive_count \in 1..MaxDriveCount
    /\ raid_level \in RaidLevels
    /\ min_drive_count_arg = min_drive_count
    /\ drive_count = min_drive_count
    /\ price_idx = 1
    /\ all_combos = <<>>
    /\ items = <<>>
    /\ item_idx = 1
    /\ tightest_combos = <<>>
    /\ ranked_combos = <<>>
    /\ pc = "generate"

\* ---- generation loop, lines 77-83 ----
InGenerateLoop ==
    /\ pc = "generate"
    /\ range_contains(min_drive_count_arg, max_drive_count + 1, drive_count)
    /\ price_idx <= Len(prices)

NewCombo == Combo(drive_count, prices[price_idx].unit_capacity,
                  prices[price_idx].unit_price, raid_level)

\* one iteration of the inner loop: the Combo is built, its capacity computed
\* and the Combo appended to its bucket
GenerateStep ==
    /\ InGenerateLoop
    /\ ~total_capacity(NewCombo).raised
    /\ LET cap == total_capacity(NewCombo).value
           old == IF cap \in DOMAIN all_combos THEN all_combos[cap] ELSE <<>>
       IN all_combos' = [c \in DOMAIN all_combos \cup {cap} |->
                            IF c = cap THEN Append(old, NewCombo) ELSE all_combos[c]]
    /\ IF price_idx = Len(prices)
       THEN drive_count' = drive_count + 1 /\ price_idx' = 1
       ELSE drive_count' = drive_count /\ price_idx' = price_idx + 1
    /\ UNCHANGED <<prices, min_drive_count, max_drive_count, raid_level,
                   min_drive_count_arg, items, item_idx, tightest_combos,
                   ranked_combos, pc>>

\* one iteration of the inner loop in which total_capacity raises ValueError:
\* the exception leaves rank_combinations, nothing is returned
GenerateRaise ==
    /\ InGenerateLoop
    /\ total_capacity(NewCombo).raised
    /\ pc' = "error"
    /\ UNCHANGED <<prices, min_drive_count, max_drive_count, raid_level,
                   min_drive_count_arg, drive_count, price_idx, all_combos, items,
                   item_idx, tightest_combos, ranked_combos>>

\* the generation loop is exhausted (or has nothing to iterate over); the
\* ranking loop starts over the sorted buckets
GenerateDone ==
    /\ pc = "generate"
    /\ ~InGenerateLoop
    /\ items' = sorted_reverse(DOMAIN all_combos)
    /\ item_idx' = 1
    /\ pc' = "rank"
    /\ UNCHANGED <<prices, min_drive_count, max_drive_count, raid_level,
                   min_drive_count_arg, drive_count, price_idx, all_combos,
                   tightest_combos, ranked_combos>>

\* ---- ranking loop, lines 86-95 ----
InRankLoop == pc = "rank" /\ item_idx <= Len(items)

Bucket == all_combos[items[item_idx]]

\* the bucket costs more than the last accepted entry: continue
RankSkip ==
    /\ InRankLoop
    /\ skip_bucket(ranked_combos, min_price_of(Bucket))
    /\ item_idx' = item_idx + 1
    /\ UNCHANGED <<prices, min_drive_count, max_drive_count, raid_level,
                   min_drive_count_arg, drive_count, price_idx, all_combos, items,
                   tightest_combos, ranked_combos, pc>>

\* the bucket is accepted: its cheapest, then tightest combo is appended
RankAccept ==
    /\ InRankLoop
    /\ ~skip_bucket(ranked_combos, min_price_of(Bucket))
    /\ LET cheapest_combos == cheapest_of(Bucket, min_price_of(Bucket))
           tightest == tightest_of(cheapest_combos, fewest_drives_of(cheapest_combos))
       IN /\ min_drive_count' = fewest_drives_of(cheapest_combos)
          /\ tightest_combos' = tightest
          /\ ranked_combos' = Append(ranked_combos, tightest[1])
    /\ item_idx' = item_idx + 1
    /\ UNCHANGED <<prices, max_drive_count, raid_level, min_drive_count_arg,
                   drive_count, price_idx, all_combos, items, pc>>

\* return ranked_combos
Return ==
    /\ pc = "rank"
    /\ ~InRankLoop
    /\ pc' = "done"
    /\ UNCHANGED <<prices, min_drive_count, max_drive_count, raid_level,
                   min_drive_count_arg, drive_count, price_idx, all_combos, items,
                   item_idx, tightest_combos, ranked_combos>>

Next ==
    \/ GenerateStep
    \/ GenerateRaise
    \/ GenerateDone
    \/ RankSkip
    \/ RankAccept
    \/ Return

Spec == Init /\ [][Next]_vars

\* ---- the call's candidates and result, as the documentation speaks of them ----
\* every Combo built by lines 77-79 for the arguments of the call
Candidates ==
    {Combo(dc, prices[i].unit_capacity, prices[i].unit_price, raid_level) :
        dc \in min_drive_count_arg..max_drive_count, i \in 1..Len(prices)}

capacity_of(combo) == total_capacity(combo).value

Returned == pc = "done"

ResultEntries == {ranked_combos[i] : i \in 1..Len(ranked_combos)}

ResultCapacities == {capacity_of(e) : e \in ResultEntries}

CandidateCapacities == {capacity_of(c) : c \in Candidates}

\* the capacity formulas of the documentation
ReferenceCapacity(combo) ==
    CASE combo.raid_level = "RAID0" -> combo.unit_capacity * combo.drive_count
      [] combo.raid_level = "RAID1" -> combo.unit_capacity
      [] combo.raid_level \in {"RAID3", "RAID4", "RAID5"} ->
             combo.unit_capacity * (combo.drive_count - 1)
      [] combo.raid_level = "RAID6" -> combo.unit_capacity * (combo.drive_count - 2)

\* a dominates b: at least the capacity, at most the price, one of them strict
Dominates(a, b) ==
    /\ capacity_of(a) >= capacity_of(b)
    /\ total_price(a) <= total_price(b)
    /\ (capacity_of(a) > capacity_of(b) \/ total_price(a) < total_price(b))

\* C1: the returned list has strictly decreasing total capacity: for all
\* positions i < j, total_capacity(result[i]) > total_capacity(result[j]).
C1_StrictlyDecreasingCapacity ==
    Returned =>
        \A i, j \in 1..Len(ranked_combos) :
            i < j => capacity_of(ranked_combos[i]) > capacity_of(ranked_combos[j])

C1_Witness == Returned /\ Len(ranked_combos) >= 3

\* C2: walking the returned list in order, total price never increases: for
\* all positions i < j, total_price(result[j]) <= total_price(result[i]).
C2_NonIncreasingPrice ==
    Returned =>
        \A i, j \in 1..Len(ranked_combos) :
            i < j => total_price(ranked_combos[j]) <= total_price(ranked_combos[i])

C2_Witness ==
    /\ Returned
    /\ CandidateCapacities # ResultCapacities
    /\ \E i \in 1..Len(ranked_combos) - 1 :
           total_price(ranked_combos[i + 1]) < total_price(ranked_combos[i])

\* C3: every candidate whose capacity is absent from the returned list is
\* covered by a returned entry of at least its capacity and at most its price.
C3_ExcludedAreCovered ==
    Returned =>
        \A c \in Candidates :
            capacity_of(c) \notin ResultCapacities =>
                \E e \in ResultEntries :
                    /\ capacity_of(e) >= capacity_of(c)
                    /\ total_price(e) <= total_price(c)

C3_Witness ==
    /\ Returned
    /\ Len(ranked_combos) >= 2
    /\ \E c \in Candidates : capacity_of(c) \notin ResultCapacities

\* C4: no returned entry is dominated by a generated candidate (capacity >=,
\* price <=, one of the two strict).
C4_ResultNonDominated ==
    Returned =>
        \A e \in ResultEntries : \A c \in Candidates : ~Dominates(c, e)

\* C5: for each of the six documented levels total_capacity is the reference
\* formula and raises no error, whatever the drive count.
C5_CapacityMatchesReference ==
    raid_level \in DocumentedLevels =>
        /\ pc # "error"
        /\ \A cap \in DOMAIN all_combos :
               \A i \in 1..Len(all_combos[cap]) :
                   cap = ReferenceCapacity(all_combos[cap][i])

\* C6: with a level outside the documented set rank_combinations never
\* returns normally, whatever the catalog and the range (empty ones included).
C6_UnsupportedLevelNeverReturns ==
    raid_level \notin DocumentedLevels => ~Returned

\* C7 (as stated): with min_drive_count > max_drive_count the call fails
\* instead of returning a result.
C7_InvalidRangeFails ==
    min_drive_count_arg > max_drive_count => ~Returned

\* C7 (amended): with min_drive_count > max_drive_count and a documented
\* level the call raises nothing, builds no candidate and returns the empty list.
C7_EmptyRangeReturnsEmpty ==
    (min_drive_count_arg > max_drive_count /\ raid_level \in DocumentedLevels) =>
        /\ pc # "error"
        /\ all_combos = <<>>
        /\ ranked_combos = <<>>

C7_Witness ==
    /\ Returned
    /\ min_drive_count_arg > max_drive_count
    /\ Len(prices) > 0
    /\ raid_level \in DocumentedLevels

\* C8: every returned entry is the cheapest candidate of its capacity and,
\* among the candidates of that capacity and price, has the fewest drives.
C8_CheapestThenFewestDrives ==
    Returned =>
        \A e \in ResultEntries : \A c \in Candidates :
            capacity_of(c) = capacity_of(e) =>
                /\ total_price(c) >= total_price(e)
                /\ total_price(c) = total_price(e) => c.drive_count >= e.drive_count

C8_Witness ==
    /\ Returned
    /\ Len(ranked_combos) >= 2
    /\ \E e \in ResultEntries : \E c \in Candidates :
           /\ capacity_of(c) = capacity_of(e)
           /\ total_price(c) = total_price(e)
           /\ c.drive_count > e.drive_count
    /\ \E e \in ResultEntries : \E c \in Candidates :
           /\ capacity_of(c) = capacity_of(e)
           /\ total_price(c) > total_price(e)

\* C9: whenever a bucket has been accepted, tightest_combos had exactly one
\* element.
C9_TightestIsSingleton ==
    Len(ranked_combos) > 0 => Len(tightest_combos) = 1

\* cheapest total price among the candidates of capacity cap
MinPriceAt(cap) ==
    SetMin({total_price(c) : c \in {d \in Candidates : capacity_of(d) = cap}})

\* C10: a candidate capacity appears in the returned list exactly when its
\* cheapest price is <= the price of every candidate of strictly greater
\* capacity.
C10_SkylineComplete ==
    Returned =>
        \A cap \in CandidateCapacities :
            (cap \in ResultCapacities) <=>
                (\A c \in Candidates :
                     capacity_of(c) > cap => MinPriceAt(cap) <= total_price(c))

C10_Witness ==
    /\ Returned
    /\ \E cap \in CandidateCapacities : cap \notin ResultCapacities
    /\ \E cap \in ResultCapacities : \E c \in Candidates :
           capacity_of(c) > cap /\ MinPriceAt(cap) = total_price(c)
    /\ \E cap \in ResultCapacities : \E c \in Candidates :
           capacity_of(c) = cap /\ cap < SetMax(CandidateCapacities)
               /\ total_price(c) > MinPriceAt(cap)

====
